---------------------------- MODULE Spec2Model ----------------------------
(***************************************************************************)
(* The credential lifecycle of music-mcp: class SpotifyAuth (auth.ts), the *)
(* two files it keeps in the home directory, and the asynchronous calls    *)
(* that run against them.                                                  *)
(*                                                                         *)
(* A JavaScript async function runs without interruption up to its next    *)
(* await.  Each action below is one such uninterrupted run: the part of a  *)
(* method before its network await, or the part after it.  Several calls   *)
(* may be between the two parts at the same time.                          *)
(***************************************************************************)
EXTENDS Integers, Sequences, FiniteSets, Bags, TLC

(***************************************************************************)
(* Bounds of the model.                                                    *)
(***************************************************************************)
\* number of calls that can be in progress at the same time
MaxCalls == 2
\* how many times the clock advances
MaxTicks == 2
\* how many token responses the token endpoint issues
MaxIssued == 2
\* how many handshakes generateAuthUrl creates
MaxHandshakes == 2

(***************************************************************************)
(* Program constants.                                                      *)
(***************************************************************************)
\* "Refresh 1 minute early": the 60000 of getValidAccessToken, milliseconds
SKEW == 60000
\* the factor of expires_in * 1000: seconds to milliseconds
MsPerSecond == 1000

\* one advance of the clock, in milliseconds (half the skew window)
Tick == SKEW \div 2
\* the values of expires_in (seconds) a token response may carry:
\* shorter than the skew window, as long as it, and longer
ExpiresIn == {30, 60, 90}

\* the messages of the errors the methods throw, named by their kind
InvalidState == "Invalid state parameter"
TokenExchangeFailed == "Failed to exchange authorization code for tokens"
NotAuthenticated == "No tokens available. Please authorize first."
ReauthorizationRequired ==
    "Access token expired and no refresh token available. Please re-authorize."
TokenRefreshFailed == "Failed to refresh access token. Please re-authorize."
\* this.loadTokens()!.access_token on null
TypeError == "TypeError: Cannot read properties of null"
\* the one error a storage operation throws (saveTokens, line 175)
StorageFailure == "Failed to save authentication tokens"

VARIABLES
    now,            \* Date.now(), milliseconds
    tokenFile,      \* ~/.spotify-mcp-tokens.json
    tempFile,       \* ~/.spotify-mcp-temp.json
    inflight,       \* the calls that wait for their POST (a bag: calls have no name)
    settled,        \* <<>>, or <<the call whose promise has just settled>>
    issued,         \* number of token responses issued by the token endpoint
    generated,      \* number of handshakes generated (source of fresh randoms)
    storageFaults,  \* whether readFileSync / writeFileSync may throw
    listeners,      \* the callback servers started, in the order of their start
    exited          \* whether the server process has exited

\* the state of SpotifyMCPServer around its SpotifyClient
server == <<listeners, exited>>

vars == <<now, tokenFile, tempFile, inflight, settled, issued, generated,
          storageFaults, server>>

(***************************************************************************)
(* Files.  A file either does not exist, or exists and holds a text: the   *)
(* empty text (data = <<>>) or the JSON of one object (data = <<object>>). *)
(* A value that JavaScript holds as "T | null" is a sequence of length at  *)
(* most one: <<>> is null.                                                 *)
(***************************************************************************)
NoFile == [exists |-> FALSE, data |-> <<>>]
FileWith(data) == [exists |-> TRUE, data |-> data]

\* the outcomes of one readFileSync: TRUE = it did not throw
ReadOutcomes == IF storageFaults THEN BOOLEAN ELSE {TRUE}

\* the outcomes of one writeFileSync: it wrote the text; or it threw before
\* it opened the file, which is left as it was; or it threw after it opened
\* (created, truncated) the file, which is left without a readable object
WriteOutcomes ==
    IF storageFaults THEN {"written", "failed", "truncated"} ELSE {"written"}

\* writeFileSync(path, text): the file after the call
WriteFile(file, data, outcome) ==
    IF outcome = "written" THEN FileWith(data)
    ELSE IF outcome = "truncated" THEN FileWith(<<>>)
    ELSE file

\* writeFileSync did not throw
Wrote(outcome) == outcome = "written"

\* a load threw at readFileSync or JSON.parse: existsSync does not throw, and
\* an absent file is never read
ReadThrew(file, readOk) == file.exists /\ ~readOk

\* a clear threw at writeFileSync: an absent file is never written
ClearThrew(file, outcome) == file.exists /\ ~Wrote(outcome)

(***************************************************************************)
(* TokenData.  refresh_token is optional: JSON.stringify leaves an         *)
(* undefined field out, so the stored object has the field or has it not.  *)
(* A response's refresh_token is <<>> (absent) or <<token>>.               *)
(***************************************************************************)
Scope == "user-read-private user-read-email"

TokenData(access, refresh, expiresAt) ==
    IF refresh = <<>>
    THEN [access_token |-> access, expires_at |-> expiresAt, scope |-> Scope]
    ELSE [access_token |-> access, refresh_token |-> refresh[1],
          expires_at |-> expiresAt, scope |-> Scope]

\* tokenData.refresh_token is truthy
HasRefreshToken(tokenData) == "refresh_token" \in DOMAIN tokenData

\* loadTokens(): null when the file is absent, empty or unreadable
LoadTokens(file, readOk) ==
    IF ~file.exists THEN <<>>
    ELSE IF ~readOk THEN <<>>
    ELSE file.data

\* loadTemporaryData(): the same for the handshake file
LoadTemporaryData(file, readOk) ==
    IF ~file.exists THEN <<>>
    ELSE IF ~readOk THEN <<>>
    ELSE file.data

\* a clearTemporaryData that leaves the handshake file as it is
ClearTemporaryData_kept(file, outcome) == file

\* clearTemporaryData(): truncates the file if it exists; a failure is logged
ClearTemporaryData(file, outcome) ==
    IF file.exists THEN WriteFile(file, <<>>, outcome) ELSE file

\* clearTokens(): truncates the file if it exists; a failure is logged
ClearTokensFile(file, outcome) ==
    IF file.exists THEN WriteFile(file, <<>>, outcome) ELSE file

(***************************************************************************)
(* Token endpoint responses.  The n-th response issued carries access      *)
(* token n and either no refresh token or refresh token n.                 *)
(***************************************************************************)
TokenResponses(n) ==
    { [access_token |-> n, refresh_token |-> r, expires_in |-> e] :
        r \in {<<>>, <<n>>}, e \in ExpiresIn }

(***************************************************************************)
(* Calls.  A call that has sent its POST and waits for axios is in the bag *)
(* inflight.  A call whose promise has settled is in settled, with result  *)
(* "ok" or the error's message, value the token returned, url the URL      *)
(* returned and flag the boolean returned; request is the API request the  *)
(* call has sent, if any; caller is the callback server that made the call *)
(* (0: none), query the parameters of the request it answers, status and   *)
(* body its HTTP response; in the call of a tool, status is the status of  *)
(* the API's response (0: none came).  tokenData and tempData are          *)
(* what loadTokens and loadTemporaryData returned to the call, and         *)
(* storageError tells that a file operation of the call threw; tool is the *)
(* tool whose handler made the call ("": none) and text the text of the    *)
(* tool's response.  A                                                     *)
(* synchronous method is a call that settles in the step it is made in.    *)
(* A settled promise is taken by its caller before anything else runs (the *)
(* continuation of an await is a microtask; it runs before the next timer, *)
(* request or response is handled), so at most one call is settled at a    *)
(* time and every other action waits for Return.                           *)
(***************************************************************************)
NewCall(op) ==
    [op |-> op, state |-> 0, tempData |-> <<>>, tokenData |-> <<>>,
     response |-> <<>>, posts |-> 0, result |-> "pending", value |-> 0,
     url |-> <<>>, flag |-> FALSE, storageError |-> FALSE, request |-> <<>>,
     caller |-> 0, query |-> <<>>, status |-> 0, body |-> <<>>,
     tool |-> "", text |-> <<>>]

Waiting == BagToSet(inflight)

\* no promise is settled and one more call may run
MayCall == settled = <<>> /\ BagCardinality(inflight) < MaxCalls

Init ==
    /\ now = 0
    /\ tokenFile = NoFile
    /\ tempFile = NoFile
    /\ inflight = EmptyBag
    /\ settled = <<>>
    /\ issued = 0
    /\ generated = 0
    /\ storageFaults = FALSE
    /\ listeners = <<>>
    /\ exited = FALSE

\* the same program with file reads and writes that may throw
InitIO ==
    /\ now = 0
    /\ tokenFile = NoFile
    /\ tempFile = NoFile
    /\ inflight = EmptyBag
    /\ settled = <<>>
    /\ issued = 0
    /\ generated = 0
    /\ storageFaults = TRUE
    /\ listeners = <<>>
    /\ exited = FALSE

\* time passes
AdvanceClock ==
    /\ settled = <<>>
    /\ now < MaxTicks * Tick
    /\ now' = now + Tick
    /\ UNCHANGED <<tokenFile, tempFile, inflight, settled, issued, generated,
                   storageFaults, server>>

(***************************************************************************)
(* generateAuthUrl(): the n-th call draws state n and code verifier n      *)
(* (randomBytes never repeats), and saveTemporaryData writes them; a       *)
(* failed write is logged and the URL is returned all the same.            *)
(***************************************************************************)
SaveTemporaryData(file, data, outcome) == WriteFile(file, <<data>>, outcome)

\* line 47: createHash('sha256').update(codeVerifier).digest('base64url'),
\* a function of the verifier that maps different verifiers to different
\* challenges
CodeChallenge(codeVerifier) == <<"sha256", "base64url", codeVerifier>>

\* lines 52-62: the parameters of the URL that vary from call to call
AuthUrl(state, codeChallenge) ==
    [state |-> state, code_challenge_method |-> "S256",
     code_challenge |-> codeChallenge]

\* lines 45-62: what the method does to the handshake file and returns
GenerateAuthUrlCall ==
    /\ settled = <<>>
    /\ generated < MaxHandshakes
    /\ \E outcome \in WriteOutcomes :
         LET state == generated + 1
             codeVerifier == generated + 1
             codeChallenge == CodeChallenge(codeVerifier)
         IN /\ tempFile' = SaveTemporaryData(tempFile,
                    [state |-> state, codeVerifier |-> codeVerifier], outcome)
            /\ settled' = <<[NewCall("generateAuthUrl") EXCEPT
                    !.state = state,
                    !.url = <<AuthUrl(state, codeChallenge)>>,
                    !.result = "ok",
                    !.storageError = ~Wrote(outcome)]>>
    /\ generated' = generated + 1

GenerateAuthUrl ==
    /\ GenerateAuthUrlCall
    /\ UNCHANGED <<now, tokenFile, inflight, issued, storageFaults, server>>

(***************************************************************************)
(* exchangeCodeForToken(code, state)                                       *)
(***************************************************************************)
\* a state check that only tests that some handshake is stored
StateRejected_anyHandshake(tempData, state) == tempData = <<>>

\* the guard of line 68: !tempData || tempData.state !== state
StateRejected(tempData, state) ==
    \/ tempData = <<>>
    \/ tempData[1].state # state

\* lines 88-93: the TokenData built from the exchange response at time t
ExchangedTokenData(response, t) ==
    TokenData(response.access_token, response.refresh_token,
              t + response.expires_in * MsPerSecond)

\* lines 66-86: up to the await of the POST.  state 0 is a state that
\* generateAuthUrl never produced.
ExchangeCodeForTokenBy(caller, query, state) ==
    /\ MayCall
    /\ \E readOk \in ReadOutcomes :
         LET tempData == LoadTemporaryData(tempFile, readOk)
             call == [NewCall("exchangeCodeForToken") EXCEPT
                         !.caller = caller, !.query = query,
                         !.state = state, !.tempData = tempData,
                         !.storageError = ReadThrew(tempFile, readOk)]
         IN IF StateRejected(tempData, state)
            THEN /\ settled' = <<[call EXCEPT !.result = InvalidState]>>
                 /\ inflight' = inflight
            ELSE /\ inflight' = inflight (+) SetToBag({[call EXCEPT !.posts = 1]})
                 /\ settled' = settled
    /\ UNCHANGED <<now, tokenFile, tempFile, issued, generated, storageFaults, server>>

\* a call made on the SpotifyAuth object by a caller other than a callback
\* server
ExchangeCodeForToken(state) == ExchangeCodeForTokenBy(0, <<>>, state)

\* lines 88-96: the POST succeeded.  saveTokens throws when its write fails,
\* and the catch of line 98 turns that into the exchange failure.
ExchangeFulfilled ==
    /\ settled = <<>>
    /\ \E call \in Waiting :
         /\ call.op = "exchangeCodeForToken"
         /\ issued < MaxIssued
         /\ \E response \in TokenResponses(issued + 1), save \in WriteOutcomes,
               clear \in WriteOutcomes :
              /\ tokenFile' = WriteFile(tokenFile,
                                 <<ExchangedTokenData(response, now)>>, save)
              /\ tempFile' = IF Wrote(save) THEN ClearTemporaryData(tempFile, clear)
                                            ELSE tempFile
              /\ settled' = <<[call EXCEPT
                    !.response = <<response>>,
                    !.result = IF Wrote(save) THEN "ok" ELSE TokenExchangeFailed,
                    !.storageError = \/ ~Wrote(save)
                                     \/ ClearThrew(tempFile, clear)]>>
         /\ inflight' = inflight (-) SetToBag({call})
         /\ issued' = issued + 1
    /\ UNCHANGED <<now, generated, storageFaults, server>>

\* a catch block that also clears the handshake
ExchangeRejected_clears ==
    /\ settled = <<>>
    /\ \E call \in Waiting :
         /\ call.op = "exchangeCodeForToken"
         /\ settled' = <<[call EXCEPT !.result = TokenExchangeFailed]>>
         /\ inflight' = inflight (-) SetToBag({call})
         /\ tempFile' = ClearTemporaryData(tempFile, "written")
    /\ UNCHANGED <<now, tokenFile, issued, generated, storageFaults, server>>

\* lines 98-101: the POST was rejected or the transport failed
ExchangeRejected ==
    /\ settled = <<>>
    /\ \E call \in Waiting :
         /\ call.op = "exchangeCodeForToken"
         /\ settled' = <<[call EXCEPT !.result = TokenExchangeFailed]>>
         /\ inflight' = inflight (-) SetToBag({call})
    /\ UNCHANGED <<now, tokenFile, tempFile, issued, generated, storageFaults, server>>

(***************************************************************************)
(* getValidAccessToken()                                                   *)
(***************************************************************************)
\* the comparison of line 112 with > for >=
IsExpiring_strict(tokenData, t) == t > tokenData.expires_at - SKEW

\* line 112: Date.now() >= tokenData.expires_at - 60000
IsExpiring(tokenData, t) == t >= tokenData.expires_at - SKEW

\* lines 107-121 with the errors of lines 108 and 114 exchanged
AccessDecision_swapped(tokenData, t) ==
    IF tokenData = <<>> THEN ReauthorizationRequired
    ELSE IF t >= tokenData[1].expires_at - SKEW
         THEN IF ~HasRefreshToken(tokenData[1]) THEN NotAuthenticated
              ELSE "refresh"
         ELSE "ok"

\* lines 107-121 without the check of line 113: the stale token is returned
AccessDecision_stale(tokenData, t) ==
    IF tokenData = <<>> THEN NotAuthenticated
    ELSE IF t >= tokenData[1].expires_at - SKEW
         THEN IF ~HasRefreshToken(tokenData[1]) THEN "ok"
              ELSE "refresh"
         ELSE "ok"

\* lines 107-121: what the call does with what loadTokens returned at time t:
\* throw one of two errors, refresh, or return the stored access token ("ok")
AccessDecision(tokenData, t) ==
    IF tokenData = <<>> THEN NotAuthenticated
    ELSE IF IsExpiring(tokenData[1], t)
         THEN IF ~HasRefreshToken(tokenData[1]) THEN ReauthorizationRequired
              ELSE "refresh"
         ELSE "ok"

\* lines 140-145 without the "|| refreshToken" of line 142
RefreshedTokenData_noCarry(response, refreshToken, t) ==
    TokenData(response.access_token, response.refresh_token,
              t + response.expires_in * MsPerSecond)

\* lines 140-145: the TokenData built from the refresh response at time t;
\* response.data.refresh_token || refreshToken
RefreshedTokenData(response, refreshToken, t) ==
    TokenData(response.access_token,
              IF response.refresh_token # <<>> THEN response.refresh_token
                                               ELSE <<refreshToken>>,
              t + response.expires_in * MsPerSecond)

\* lines 105-117 and 125-138: up to the await of the refresh POST, in a
\* request that the handler of tool sends
GetValidAccessTokenFor(tool) ==
    /\ MayCall
    /\ \E readOk \in ReadOutcomes :
         LET tokenData == LoadTokens(tokenFile, readOk)
             decision == AccessDecision(tokenData, now)
             call == [NewCall("getValidAccessToken") EXCEPT
                         !.tool = tool,
                         !.tokenData = tokenData,
                         !.storageError = ReadThrew(tokenFile, readOk)]
         IN IF decision = "refresh"
            THEN /\ inflight' = inflight (+) SetToBag({[call EXCEPT !.posts = 1]})
                 /\ settled' = settled
            ELSE /\ settled' =
                      IF decision = "ok"
                      THEN <<[call EXCEPT !.result = "ok",
                                !.value = tokenData[1].access_token]>>
                      ELSE <<[call EXCEPT !.result = decision]>>
                 /\ inflight' = inflight
    /\ UNCHANGED <<now, tokenFile, tempFile, issued, generated, storageFaults, server>>

\* a request sent on the SpotifyClient object by a caller other than a tool
GetValidAccessToken == GetValidAccessTokenFor("")

\* lines 140-147 and 118: the refresh POST succeeded.  saveTokens throws when
\* its write fails and the catch of line 149 turns that into the refresh
\* failure; otherwise the call returns this.loadTokens()!.access_token.  The
\* promise of refreshToken resolves and getValidAccessToken resumes in the
\* same turn of the event loop, so both are one step.
RefreshFulfilled ==
    /\ settled = <<>>
    /\ \E call \in Waiting :
         /\ call.op = "getValidAccessToken"
         /\ issued < MaxIssued
         /\ \E response \in TokenResponses(issued + 1), save \in WriteOutcomes,
               readOk \in ReadOutcomes :
              LET saved == WriteFile(tokenFile,
                             <<RefreshedTokenData(response,
                                  call.tokenData[1].refresh_token, now)>>, save)
                  loaded == LoadTokens(saved, readOk)
              IN /\ tokenFile' = saved
                 /\ settled' = <<[call EXCEPT
                       !.response = <<response>>,
                       !.result = IF ~Wrote(save) THEN TokenRefreshFailed
                                  ELSE IF loaded = <<>> THEN TypeError
                                  ELSE "ok",
                       !.value = IF Wrote(save) /\ loaded # <<>>
                                 THEN loaded[1].access_token ELSE 0,
                       !.storageError = \/ ~Wrote(save)
                                        \/ ReadThrew(saved, readOk)]>>
         /\ inflight' = inflight (-) SetToBag({call})
         /\ issued' = issued + 1
    /\ UNCHANGED <<now, tempFile, generated, storageFaults, server>>

\* a catch block that sends the refresh POST a second time before giving up
RefreshRejected_retry ==
    /\ settled = <<>>
    /\ \E call \in Waiting :
         /\ call.op = "getValidAccessToken"
         /\ IF call.posts < 2
            THEN /\ inflight' = (inflight (-) SetToBag({call})) (+)
                        SetToBag({[call EXCEPT !.posts = call.posts + 1]})
                 /\ settled' = settled
            ELSE /\ inflight' = inflight (-) SetToBag({call})
                 /\ settled' = <<[call EXCEPT !.result = TokenRefreshFailed]>>
    /\ UNCHANGED <<now, tokenFile, tempFile, issued, generated, storageFaults, server>>

\* a catch block that signs the user out when the refresh fails
RefreshRejected_clearsTokens ==
    /\ settled = <<>>
    /\ \E call \in Waiting :
         /\ call.op = "getValidAccessToken"
         /\ settled' = <<[call EXCEPT !.result = TokenRefreshFailed]>>
         /\ inflight' = inflight (-) SetToBag({call})
         /\ tokenFile' = ClearTokensFile(tokenFile, "written")
    /\ UNCHANGED <<now, tempFile, issued, generated, storageFaults, server>>

\* lines 149-152: the refresh POST was rejected or the transport failed
RefreshRejected ==
    /\ settled = <<>>
    /\ \E call \in Waiting :
         /\ call.op = "getValidAccessToken"
         /\ settled' = <<[call EXCEPT !.result = TokenRefreshFailed]>>
         /\ inflight' = inflight (-) SetToBag({call})
    /\ UNCHANGED <<now, tokenFile, tempFile, issued, generated, storageFaults, server>>

(***************************************************************************)
(* isAuthenticated(): loadTokens() !== null                                *)
(***************************************************************************)
\* a check that also asks for a refresh token
Authenticated_refreshable(tokenData) ==
    tokenData # <<>> /\ HasRefreshToken(tokenData[1])

\* line 157: tokenData !== null
Authenticated(tokenData) == tokenData # <<>>

IsAuthenticated ==
    /\ settled = <<>>
    /\ \E readOk \in ReadOutcomes :
         LET tokenData == LoadTokens(tokenFile, readOk)
         IN settled' = <<[NewCall("isAuthenticated") EXCEPT
                 !.tokenData = tokenData,
                 !.flag = Authenticated(tokenData),
                 !.result = "ok",
                 !.storageError = ReadThrew(tokenFile, readOk)]>>
    /\ UNCHANGED <<now, tokenFile, tempFile, inflight, issued, generated,
                   storageFaults, server>>

(***************************************************************************)
(* clearAuth() of SpotifyClient, which is clearTokens()                    *)
(***************************************************************************)
\* a clearTokens that clears the handshake file as well
ClearTokens_clearsHandshake ==
    /\ settled = <<>>
    /\ tokenFile' = ClearTokensFile(tokenFile, "written")
    /\ tempFile' = ClearTemporaryData(tempFile, "written")
    /\ settled' = <<[NewCall("clearAuth") EXCEPT !.result = "ok"]>>
    /\ UNCHANGED <<now, inflight, issued, generated, storageFaults, server>>

ClearTokens ==
    /\ settled = <<>>
    /\ \E outcome \in WriteOutcomes :
         /\ tokenFile' = ClearTokensFile(tokenFile, outcome)
         /\ settled' = <<[NewCall("clearAuth") EXCEPT
                 !.result = "ok",
                 !.storageError = ClearThrew(tokenFile, outcome)]>>
    /\ UNCHANGED <<now, tempFile, inflight, issued, generated, storageFaults, server>>

(***************************************************************************)
(* The request interceptor of SpotifyClient.  Every API method sends its   *)
(* request through this.api, and the interceptor is the one caller of      *)
(* getValidAccessToken(): an API request begins with GetValidAccessToken,  *)
(* and when that call settles the interceptor attaches the token and lets  *)
(* the request go out, or rejects the request.                             *)
(***************************************************************************)
\* line 28: `Bearer ${token}`
Bearer(token) == <<"Bearer", token>>

\* line 32: `Authentication required: ${error.message}`
AuthenticationRequired(message) == "Authentication required: " \o message

\* an interceptor whose catch logs the failure and returns the config
Interceptor_sendsAnyway ==
    /\ settled # <<>>
    /\ settled[1].op = "getValidAccessToken"
    /\ settled' = <<[settled[1] EXCEPT
            !.op = "apiRequest",
            !.request = IF settled[1].result = "ok"
                        THEN <<[Authorization |-> Bearer(settled[1].value)]>>
                        ELSE <<[Authorization |-> <<>>]>>]>>
    /\ UNCHANGED <<now, tokenFile, tempFile, inflight, issued, generated,
                   storageFaults, server>>

\* lines 25-35: the continuation of await this.auth.getValidAccessToken()
Interceptor ==
    /\ settled # <<>>
    /\ settled[1].op = "getValidAccessToken"
    /\ settled' = <<[settled[1] EXCEPT
            !.op = "apiRequest",
            !.request = IF settled[1].result = "ok"
                        THEN <<[Authorization |-> Bearer(settled[1].value)]>>
                        ELSE <<>>,
            !.result = IF settled[1].result = "ok" THEN "ok"
                       ELSE AuthenticationRequired(settled[1].result)]>>
    /\ UNCHANGED <<now, tokenFile, tempFile, inflight, issued, generated,
                   storageFaults, server>>

\* the caller takes the settled promise
Return ==
    /\ settled # <<>>
    /\ settled[1].op # "getValidAccessToken"
    /\ settled[1].op = "exchangeCodeForToken" => settled[1].caller = 0
    /\ settled[1].op = "apiRequest" => settled[1].tool = ""
    /\ settled[1].op # "handler"
    /\ settled' = <<>>
    /\ UNCHANGED <<now, tokenFile, tempFile, inflight, issued, generated,
                   storageFaults, server>>

Next ==
    \/ AdvanceClock
    \/ GenerateAuthUrl
    \/ \E state \in 0 .. MaxHandshakes : ExchangeCodeForToken(state)
    \/ ExchangeFulfilled
    \/ ExchangeRejected
    \/ GetValidAccessToken
    \/ RefreshFulfilled
    \/ RefreshRejected
    \/ IsAuthenticated
    \/ ClearTokens
    \/ Interceptor
    \/ Return

Spec == Init /\ [][Next]_vars

SpecIO == InitIO /\ [][Next]_vars

\* the token file outlives the process: a server that starts finds the
\* CredentialRecord an earlier run has stored, here one written with token 0
\* and refresh token 0 that expires one Tick after the start
StoredByEarlierRun == TokenData(0, <<0>>, Tick)

InitStored ==
    /\ now = 0
    /\ tokenFile = FileWith(<<StoredByEarlierRun>>)
    /\ tempFile = NoFile
    /\ inflight = EmptyBag
    /\ settled = <<>>
    /\ issued = 0
    /\ generated = 0
    /\ storageFaults = FALSE
    /\ listeners = <<>>
    /\ exited = FALSE

SpecStored == InitStored /\ [][Next]_vars

(***************************************************************************)
(* The authorization flow of SpotifyMCPServer: the tool spotify_authorize  *)
(* and the callback server it starts on port 8888.                         *)
(*                                                                         *)
(* A query parameter that searchParams.get() returns is <<>> (null: the    *)
(* parameter is absent) or <<n>>, the text number n.  A parameter with an  *)
(* empty text is falsy like an absent one and is not drawn.                *)
(***************************************************************************)
\* the 5 * 60 * 1000 of the setTimeout of startCallbackServer, milliseconds
CallbackTimeout == 5 * 60 * 1000

\* the error codes of the authorization server (1: access_denied)
ErrorCodes == {1}
\* the authorization codes (1: any code)
Codes == {1}

QueryParams(values) == {<<>>} \union { <<v>> : v \in values }

\* lines 778-781: the requests a callback server may receive
Queries ==
    [code : QueryParams(Codes), state : QueryParams(0 .. MaxHandshakes),
     error : QueryParams(ErrorCodes)]

\* a parameter in a condition: null is falsy
Truthy(param) == param # <<>>

\* the text of a truthy parameter
Text(param) == param[1]

Listening(l) == l \in 1 .. Len(listeners) /\ listeners[l].status = "Listening"

\* server.close() of listener l: it stops listening; on a server that does
\* not listen it does nothing
Close(l, by) ==
    IF Listening(l)
    THEN [listeners EXCEPT ![l].status = "Closed", ![l].closedBy = by]
    ELSE listeners

\* the HTTP response of a callback server
Response(l, query, status, body) ==
    [NewCall("callback") EXCEPT
        !.caller = l, !.query = query, !.status = status, !.body = body]

\* part_001 lines 469-483 and 775-818: generateAuthUrl(), then
\* startCallbackServer().  listen(8888) on a port that a listener of this
\* process still holds emits 'error' (EADDRINUSE) on the new server, which
\* has no 'error' handler: the exception is uncaught and the process exits,
\* and with it every listener, timer and pending call.
HandleAuthorize ==
    /\ ~exited
    /\ GenerateAuthUrlCall
    /\ IF \E l \in 1 .. Len(listeners) : Listening(l)
       THEN /\ listeners' = Append(
                   [l \in 1 .. Len(listeners) |->
                       [Close(l, "exit")[l] EXCEPT !.timer = FALSE]],
                   [status |-> "Failed", timer |-> FALSE,
                    due |-> now + CallbackTimeout, closedBy |-> "exit"])
            /\ exited' = TRUE
            /\ inflight' = EmptyBag
       ELSE /\ listeners' = Append(listeners,
                   [status |-> "Listening", timer |-> TRUE,
                    due |-> now + CallbackTimeout, closedBy |-> ""])
            /\ exited' = exited
            /\ inflight' = inflight
    /\ UNCHANGED <<now, tokenFile, issued, storageFaults>>

\* lines 783-788: a request with an error parameter
CallbackError(l) ==
    /\ settled = <<>>
    /\ Listening(l)
    /\ \E query \in Queries :
         /\ Truthy(query.error)
         /\ settled' = <<Response(l, query, 400,
                             <<"Authorization failed", query.error>>)>>
         /\ listeners' = Close(l, "request")
    /\ UNCHANGED <<now, tokenFile, tempFile, inflight, issued, generated,
                   storageFaults, exited>>

\* a handler that tests code and state before it tests error
CallbackCode_first(l) ==
    /\ Listening(l)
    /\ \E query \in Queries :
         /\ Truthy(query.code) /\ Truthy(query.state)
         /\ ExchangeCodeForTokenBy(l, query, Text(query.state))

\* lines 790-791: a request with code and state and no error:
\* handleAuthCallback(code, state), which is exchangeCodeForToken(code, state)
CallbackCode(l) ==
    /\ Listening(l)
    /\ \E query \in Queries :
         /\ ~Truthy(query.error)
         /\ Truthy(query.code) /\ Truthy(query.state)
         /\ ExchangeCodeForTokenBy(l, query, Text(query.state))

\* lines 802-806: a request with no error and without code or without state
CallbackMissing(l) ==
    /\ settled = <<>>
    /\ Listening(l)
    /\ \E query \in Queries :
         /\ ~Truthy(query.error)
         /\ ~(Truthy(query.code) /\ Truthy(query.state))
         /\ settled' = <<Response(l, query, 400,
                             <<"Missing authorization parameters">>)>>
         /\ listeners' = Close(l, "request")
    /\ UNCHANGED <<now, tokenFile, tempFile, inflight, issued, generated,
                   storageFaults, exited>>

\* a then/catch that answers 200 whatever the exchange did
Respond_always200 ==
    /\ settled # <<>>
    /\ settled[1].op = "exchangeCodeForToken"
    /\ settled[1].caller # 0
    /\ settled' = <<[settled[1] EXCEPT
            !.op = "callback",
            !.status = 200,
            !.body = <<"Authorization successful!">>]>>
    /\ listeners' = Close(settled[1].caller, "request")
    /\ UNCHANGED <<now, tokenFile, tempFile, inflight, issued, generated,
                   storageFaults, exited>>

\* lines 792-801: the then and the catch of handleAuthCallback(code, state)
Respond ==
    /\ settled # <<>>
    /\ settled[1].op = "exchangeCodeForToken"
    /\ settled[1].caller # 0
    /\ settled' = <<[settled[1] EXCEPT
            !.op = "callback",
            !.status = IF settled[1].result = "ok" THEN 200 ELSE 400,
            !.body = IF settled[1].result = "ok"
                     THEN <<"Authorization successful!">>
                     ELSE <<"Authorization failed", settled[1].result>>]>>
    /\ listeners' = Close(settled[1].caller, "request")
    /\ UNCHANGED <<now, tokenFile, tempFile, inflight, issued, generated,
                   storageFaults, exited>>

\* lines 815-817: the timer of listener l is set and its server still
\* listens.  The timer of a server that was closed fires as well, and its
\* server.close() does nothing: that step changes no state and is left out.
Pending(l) == listeners[l].timer /\ Listening(l)

\* a timer that is cancelled and never closes the server
TimerFires_cancelled(l) ==
    /\ ~exited
    /\ settled = <<>>
    /\ l \in 1 .. Len(listeners)
    /\ Pending(l)
    /\ now >= listeners[l].due
    /\ listeners' = [listeners EXCEPT ![l].timer = FALSE]
    /\ UNCHANGED <<now, tokenFile, tempFile, inflight, settled, issued, generated,
                   storageFaults, exited>>

\* lines 815-817: the timer of listener l fires
TimerFires(l) ==
    /\ ~exited
    /\ settled = <<>>
    /\ l \in 1 .. Len(listeners)
    /\ Pending(l)
    /\ now >= listeners[l].due
    /\ listeners' = [Close(l, "timeout") EXCEPT ![l].timer = FALSE]
    /\ UNCHANGED <<now, tokenFile, tempFile, inflight, settled, issued, generated,
                   storageFaults, exited>>

\* time passes until the next timer is due
AwaitTimer ==
    /\ ~exited
    /\ settled = <<>>
    /\ \E l \in 1 .. Len(listeners) :
         /\ Pending(l)
         /\ listeners[l].due > now
         /\ \A k \in 1 .. Len(listeners) :
                (Pending(k) /\ listeners[k].due > now)
                => listeners[l].due <= listeners[k].due
         /\ now' = listeners[l].due
    /\ UNCHANGED <<tokenFile, tempFile, inflight, settled, issued, generated,
                   storageFaults, server>>

NextServer ==
    \/ AwaitTimer
    \/ HandleAuthorize
    \/ \E l \in 1 .. MaxHandshakes : CallbackError(l)
    \/ \E l \in 1 .. MaxHandshakes : CallbackCode(l)
    \/ \E l \in 1 .. MaxHandshakes : CallbackMissing(l)
    \/ ExchangeFulfilled
    \/ ExchangeRejected
    \/ Respond
    \/ \E l \in 1 .. MaxHandshakes : TimerFires(l)
    \/ Return

\* Node runs every continuation that is ready and fires every timer that
\* is due, and time passes
Fairness ==
    /\ WF_vars(AwaitTimer)
    /\ \A l \in 1 .. MaxHandshakes : WF_vars(TimerFires(l))
    /\ WF_vars(Respond)
    /\ WF_vars(Return)

SpecServer == Init /\ [][NextServer]_vars /\ Fairness

(***************************************************************************)
(* The tools of SpotifyMCPServer.  The handler of a tool calls one method  *)
(* of SpotifyClient; a method that sends an API request sends it through   *)
(* this.api, whose request interceptor runs first.  The tools modelled are *)
(* one for each shape of method: search and getTrack (the catch throws one *)
(* fixed error, as it does in startPlayback and the other playback         *)
(* methods), getCurrentTrack (the catch tests axios.isAxiosError, as it    *)
(* does in getDevices), the two that call a synchronous method             *)
(* of SpotifyAuth, and a name that is no tool.  The tool spotify_authorize *)
(* is HandleAuthorize above.                                               *)
(***************************************************************************)
ApiTools == {"search_spotify", "get_item_details", "get_current_track"}

Tools ==
    ApiTools \union
        {"spotify_authorize", "spotify_auth_status", "spotify_clear_auth"}

\* the names the call-tool requests below carry
ToolNames == (Tools \ {"spotify_authorize"}) \union {"no_such_tool"}

\* the method of SpotifyClient that the handler of an API tool calls (for
\* get_item_details: of type 'track')
Method(tool) ==
    CASE tool = "search_spotify" -> "search"
      [] tool = "get_item_details" -> "getTrack"
      [] tool = "get_current_track" -> "getCurrentTrack"

\* the error each method's catch throws for an error it does not look into
OperationFailed(method) ==
    CASE method = "search" -> "Failed to search Spotify"
      [] method = "getTrack" -> "Failed to get track"
      [] method = "getCurrentTrack" -> "Failed to get current track"

\* the methods whose catch tests axios.isAxiosError(error)
AxiosAware == {"getCurrentTrack"}

\* an error as a catch sees it.  What the interceptor throws is a plain
\* Error; what axios throws for a response or a transport failure is an
\* AxiosError.
PlainError(message) ==
    [isAxiosError |-> FALSE, status |-> 0, message |-> message]

\* the errors of the API: 401 Unauthorized
ApiErrors ==
    {[isAxiosError |-> TRUE, status |-> 401,
      message |-> "The access token expired"]}

\* `${status}`
StatusText(status) == IF status = 401 THEN "401" ELSE "undefined"

\* the catch of a method: the message of the error it throws
MethodError(method, error) ==
    IF method \in AxiosAware /\ error.isAxiosError
    THEN OperationFailed(method) \o " (" \o StatusText(error.status) \o "): "
            \o error.message
    ELSE OperationFailed(method)

\* the text a handler returns when its method returned
Content(tool) ==
    CASE tool = "search_spotify" -> "{results}"
      [] tool = "get_item_details" -> "{details}"
      [] tool = "get_current_track" -> "{currentTrack}"

\* part_001 line 529, for a type that is none of the four
UnknownItemType == "Unknown item type: podcast"

Authenticated_text == "User is authenticated with Spotify"
NotAuthenticated_text ==
    "User is not authenticated. Use spotify_authorize to get started."
Cleared_text ==
    "Authentication tokens cleared. Use spotify_authorize to authenticate with a different account."

\* part_001 line 446: `Error: ${error.message}`
ErrorText(message) == "Error: " \o message

\* a request handler without the catch of lines 441-450: an error escapes
ToolResponse_escapes(call) ==
    [call EXCEPT !.op = "callTool",
                 !.text = IF call.result = "ok" THEN call.text ELSE <<>>]

\* part_001 lines 392-450: what the call-tool request handler returns for a
\* handler that returned (result "ok", text its content) or threw
ToolResponse(call) ==
    [call EXCEPT !.op = "callTool",
                 !.text = IF call.result = "ok" THEN call.text
                          ELSE <<ErrorText(call.result)>>]

\* part_001 lines 389-439: a call-tool request with this name.  The handler
\* of an API tool calls its method, whose request enters the interceptor; a
\* handler that awaits nothing, and the default case, are answered at once.
CallTool(name) ==
    \/ /\ name \in ApiTools
       /\ ~exited
       /\ GetValidAccessTokenFor(name)
    \/ /\ name = "get_item_details"
       /\ ~exited
       /\ settled = <<>>
       /\ settled' = <<ToolResponse([NewCall("handler") EXCEPT
               !.tool = name, !.result = UnknownItemType])>>
       /\ UNCHANGED <<now, tokenFile, tempFile, inflight, issued, generated,
                      storageFaults, server>>
    \/ /\ name = "spotify_auth_status"
       /\ ~exited
       /\ settled = <<>>
       /\ \E readOk \in ReadOutcomes :
            LET tokenData == LoadTokens(tokenFile, readOk)
            IN settled' = <<ToolResponse([NewCall("handler") EXCEPT
                    !.tool = name,
                    !.tokenData = tokenData,
                    !.flag = Authenticated(tokenData),
                    !.result = "ok",
                    !.text = IF Authenticated(tokenData)
                             THEN <<Authenticated_text>>
                             ELSE <<NotAuthenticated_text>>,
                    !.storageError = ReadThrew(tokenFile, readOk)])>>
       /\ UNCHANGED <<now, tokenFile, tempFile, inflight, issued, generated,
                      storageFaults, server>>
    \/ /\ name = "spotify_clear_auth"
       /\ ~exited
       /\ settled = <<>>
       /\ \E outcome \in WriteOutcomes :
            /\ tokenFile' = ClearTokensFile(tokenFile, outcome)
            /\ settled' = <<ToolResponse([NewCall("handler") EXCEPT
                    !.tool = name,
                    !.result = "ok",
                    !.text = <<Cleared_text>>,
                    !.storageError = ClearThrew(tokenFile, outcome)])>>
       /\ UNCHANGED <<now, tempFile, inflight, issued, generated,
                      storageFaults, server>>
    \/ /\ name \notin Tools
       /\ ~exited
       /\ settled = <<>>
       /\ settled' = <<ToolResponse([NewCall("handler") EXCEPT
               !.tool = name, !.result = "Unknown tool: " \o name])>>
       /\ UNCHANGED <<now, tokenFile, tempFile, inflight, issued, generated,
                      storageFaults, server>>

\* spotify-client.ts line 34: the interceptor returned the config, and axios
\* sends the request of a tool's method, which waits for the response; the
\* token has gone out with the request and what getValidAccessToken()
\* loaded is gone with its frame
SendRequest ==
    /\ settled # <<>>
    /\ settled[1].op = "apiRequest"
    /\ settled[1].tool # ""
    /\ settled[1].result = "ok"
    /\ inflight' = inflight (+) SetToBag({[NewCall("apiRequest") EXCEPT
            !.tool = settled[1].tool]})
    /\ settled' = <<>>
    /\ UNCHANGED <<now, tokenFile, tempFile, issued, generated, storageFaults,
                   server>>

\* the interceptor threw: the catch of the tool's method takes the error and
\* throws its own, which the handler lets through to the request handler
MethodCatch ==
    /\ settled # <<>>
    /\ settled[1].op = "apiRequest"
    /\ settled[1].tool # ""
    /\ settled[1].result # "ok"
    /\ settled' = <<[NewCall("handler") EXCEPT
            !.tool = settled[1].tool,
            !.result = MethodError(Method(settled[1].tool),
                                   PlainError(settled[1].result))]>>
    /\ UNCHANGED <<now, tokenFile, tempFile, inflight, issued, generated,
                   storageFaults, server>>

\* the API answered the request of a tool's method: the method returns the
\* data and the handler its text
ApiFulfilled ==
    /\ settled = <<>>
    /\ \E call \in Waiting :
         /\ call.op = "apiRequest"
         /\ settled' = <<[call EXCEPT
                 !.op = "handler",
                 !.status = 200,
                 !.result = "ok",
                 !.text = <<Content(call.tool)>>]>>
         /\ inflight' = inflight (-) SetToBag({call})
    /\ UNCHANGED <<now, tokenFile, tempFile, issued, generated, storageFaults,
                   server>>

\* the API refused the request or the transport failed: the catch of the
\* method throws
ApiRejected ==
    /\ settled = <<>>
    /\ \E call \in Waiting, error \in ApiErrors :
         /\ call.op = "apiRequest"
         /\ settled' = <<[call EXCEPT
                 !.op = "handler",
                 !.status = error.status,
                 !.result = MethodError(Method(call.tool), error)]>>
         /\ inflight' = inflight (-) SetToBag({call})
    /\ UNCHANGED <<now, tokenFile, tempFile, issued, generated, storageFaults,
                   server>>

\* part_001 lines 392-450: the handler's promise settled
Dispatch ==
    /\ settled # <<>>
    /\ settled[1].op = "handler"
    /\ settled' = <<ToolResponse(settled[1])>>
    /\ UNCHANGED <<now, tokenFile, tempFile, inflight, issued, generated,
                   storageFaults, server>>

\* the tools, and the calls on SpotifyAuth that store a credential
NextTools ==
    \/ \E name \in ToolNames : CallTool(name)
    \/ GenerateAuthUrl
    \/ \E state \in 0 .. MaxHandshakes : ExchangeCodeForToken(state)
    \/ RefreshFulfilled
    \/ RefreshRejected
    \/ Interceptor
    \/ SendRequest
    \/ MethodCatch
    \/ ApiFulfilled
    \/ ApiRejected
    \/ Dispatch
    \/ ExchangeFulfilled
    \/ ExchangeRejected
    \/ Return

SpecTools == Init /\ [][NextTools]_vars


(***************************************************************************)
(* Steps, as the claims speak of them.                                     *)
(***************************************************************************)
\* the call whose promise is settled in this state, if it is a call of op
Settled(op) == settled # <<>> /\ settled[1].op = op

\* a call of op is made in this step and settles before any await
BeginsAndSettles(op) ==
    settled = <<>> /\ Settled(op)' /\ inflight' = inflight

\* a call of op is made in this step, sends its POST and waits
BeginsAndWaits(op) ==
    /\ settled = <<>> /\ settled' = <<>>
    /\ \E call \in BagToSet(inflight') :
         call.op = op /\ inflight' = inflight (+) SetToBag({call})

Begins(op) == BeginsAndSettles(op) \/ BeginsAndWaits(op)

\* the call of op made in this step
Begun(op) ==
    IF settled' # <<>> THEN settled'[1]
    ELSE CHOOSE call \in BagToSet(inflight') :
            call.op = op /\ inflight' = inflight (+) SetToBag({call})

\* a call of op that was waiting for its POST settles in this step
Resumes(op) ==
    settled = <<>> /\ Settled(op)' /\ inflight' # inflight

\* a call of op is settled with this error and has sent no request
FailedUnsent(op, error) ==
    /\ Settled(op)
    /\ settled[1].result = error
    /\ settled[1].posts = 0

\* the stored CredentialRecord: <<>> when the file is absent or empty
Credential == tokenFile.data
\* the stored HandshakeRecord: <<>> when the file is absent or empty
Handshake == tempFile.data

(***************************************************************************)
(* C1.  Two getValidAccessToken() calls that overlap on the same expiring  *)
(* stored credential send at most one refresh POST between them: no two    *)
(* calls that loaded the same CredentialRecord are both waiting for a      *)
(* refresh POST of their own.                                              *)
(***************************************************************************)
C1_AtMostOneRefreshInFlight ==
    \A c1 \in Waiting :
        c1.op = "getValidAccessToken"
        => /\ CopiesIn(c1, inflight) = 1
           /\ \A c2 \in Waiting \ {c1} :
                c2.op = "getValidAccessToken" => c2.tokenData # c1.tokenData

(***************************************************************************)
(* C2.  Whenever getValidAccessToken() returns an access token, that token *)
(* is the one of the stored record and the record is outside the skew      *)
(* window: now < expires_at - 60 s.  (A settled call is taken by its       *)
(* caller at once, so now and the file are those of the return.)           *)
(***************************************************************************)
C2_ReturnedTokenOutsideWindow ==
    (Settled("getValidAccessToken") /\ settled[1].result = "ok")
    => /\ Credential # <<>>
       /\ Credential[1].access_token = settled[1].value
       /\ now < Credential[1].expires_at - 60000

(***************************************************************************)
(* C3.  A getValidAccessToken() call that reads a stored credential with a *)
(* refresh_token: if now < expires_at - 60 s it returns the stored         *)
(* access_token, sends no request and the endpoint issues nothing;         *)
(* otherwise (now = expires_at - 60 s included) it sends one refresh POST  *)
(* and waits, and when it then returns it has sent exactly that one        *)
(* request and returns the access_token of the response to it.             *)
(***************************************************************************)
C3_RefreshExactlyWhenInWindow ==
    [][/\ (Begins("getValidAccessToken") /\ Credential # <<>>
               /\ HasRefreshToken(Credential[1])
               /\ Begun("getValidAccessToken").tokenData = Credential)
          => IF now < Credential[1].expires_at - 60000
             THEN /\ BeginsAndSettles("getValidAccessToken")
                  /\ settled'[1].result = "ok"
                  /\ settled'[1].value = Credential[1].access_token
                  /\ settled'[1].posts = 0
                  /\ issued' = issued
                  /\ tokenFile' = tokenFile
             ELSE /\ BeginsAndWaits("getValidAccessToken")
                  /\ \A call \in BagToSet(inflight') : call.posts = 1
       /\ Resumes("getValidAccessToken")
          => /\ settled'[1].posts = 1
             /\ settled'[1].result = "ok"
                => /\ settled'[1].response # <<>>
                   /\ settled'[1].response[1].access_token = issued'
                   /\ issued' = issued + 1
                   /\ settled'[1].value = settled'[1].response[1].access_token
      ]_vars

\* a call that found the record exactly at expires_at - 60 s has refreshed
\* and returned the newly issued token
C3_Witness ==
    /\ Settled("getValidAccessToken")
    /\ settled[1].result = "ok"
    /\ settled[1].posts = 1
    /\ settled[1].tokenData[1].expires_at - 60000 = now
    /\ settled[1].value # settled[1].tokenData[1].access_token

(***************************************************************************)
(* C4.  A getValidAccessToken() call made while no CredentialRecord is     *)
(* stored (the token file absent or empty) fails with NotAuthenticated,    *)
(* sends no request and changes neither file.                              *)
(***************************************************************************)
C4_NotAuthenticatedWhenNothingStored ==
    [][(Begins("getValidAccessToken") /\ Credential = <<>>)
        => /\ FailedUnsent("getValidAccessToken", NotAuthenticated)'
           /\ UNCHANGED <<tokenFile, tempFile, inflight, issued>>
      ]_vars

\* the call failed on the file that clearTokens emptied
C4_Witness ==
    /\ FailedUnsent("getValidAccessToken", NotAuthenticated)
    /\ tokenFile = FileWith(<<>>)

(***************************************************************************)
(* C5.  A getValidAccessToken() call that reads a stored credential which  *)
(* has no refresh_token and is in the skew window or past expiry fails     *)
(* with ReauthorizationRequired, sends no request and changes neither      *)
(* file.                                                                   *)
(***************************************************************************)
C5_ReauthorizationRequiredWithoutRefreshToken ==
    [][(Begins("getValidAccessToken") /\ Credential # <<>>
            /\ ~HasRefreshToken(Credential[1])
            /\ now >= Credential[1].expires_at - 60000
            /\ Begun("getValidAccessToken").tokenData = Credential)
        => /\ FailedUnsent("getValidAccessToken", ReauthorizationRequired)'
           /\ UNCHANGED <<tokenFile, tempFile, inflight, issued>>
      ]_vars

\* the call failed on a record without refresh_token whose expires_at is past
C5_Witness ==
    /\ FailedUnsent("getValidAccessToken", ReauthorizationRequired)
    /\ Credential # <<>>
    /\ settled[1].tokenData = Credential
    /\ ~HasRefreshToken(Credential[1])
    /\ now > Credential[1].expires_at

C7_InvalidStateLeavesEverything ==
    [][(/\ Begins("exchangeCodeForToken")
        /\ \/ Handshake = <<>>
           \/ Handshake[1].state # Begun("exchangeCodeForToken").state)
        => /\ FailedUnsent("exchangeCodeForToken", InvalidState)'
           /\ UNCHANGED <<tokenFile, tempFile, inflight, issued>>
      ]_vars

\* the call failed on a stored handshake of another state, next to a stored
\* credential
C7_Witness ==
    /\ FailedUnsent("exchangeCodeForToken", InvalidState)
    /\ Handshake # <<>>
    /\ Handshake[1].state # settled[1].state
    /\ Credential # <<>>

(***************************************************************************)
(* C8.  A successful exchangeCodeForToken stores the CredentialRecord of   *)
(* its response with expires_at = now + expires_in*1000 and leaves no      *)
(* HandshakeRecord; a HandshakeRecord is stored again only by              *)
(* generateAuthUrl; and an exchangeCodeForToken made while none is stored  *)
(* fails with InvalidState.  So after a successful exchange every exchange *)
(* fails with InvalidState until generateAuthUrl runs again.               *)
(***************************************************************************)
C8_HandshakeSingleUse ==
    [][/\ (Resumes("exchangeCodeForToken") /\ settled'[1].result = "ok")
          => /\ Credential' # <<>>
             /\ Credential'[1].access_token =
                    settled'[1].response[1].access_token
             /\ Credential'[1].expires_at =
                    now' + settled'[1].response[1].expires_in * 1000
             /\ Handshake' = <<>>
       /\ (Handshake = <<>> /\ Handshake' # <<>>) => generated' = generated + 1
       /\ (Begins("exchangeCodeForToken") /\ Handshake = <<>>)
          => FailedUnsent("exchangeCodeForToken", InvalidState)'
      ]_vars

\* an exchange has succeeded on the handshake it loaded, which is gone
C8_Witness ==
    /\ Settled("exchangeCodeForToken")
    /\ settled[1].result = "ok"
    /\ settled[1].tempData # <<>>
    /\ settled[1].tempData[1].state = settled[1].state
    /\ tempFile = FileWith(<<>>)
    /\ Credential # <<>>

(***************************************************************************)
(* C9.  When the POST of exchangeCodeForToken is rejected or the transport *)
(* fails (the call settles without a response), the call fails with        *)
(* TokenExchangeFailed and neither the HandshakeRecord nor the             *)
(* CredentialRecord changes.                                               *)
(***************************************************************************)
C9_FailedExchangeLeavesHandshake ==
    [][(Resumes("exchangeCodeForToken") /\ settled'[1].response = <<>>)
        => /\ settled'[1].result = TokenExchangeFailed
           /\ UNCHANGED <<tokenFile, tempFile>>
      ]_vars

\* an exchange has failed and the handshake it loaded is still stored
C9_Witness ==
    /\ Settled("exchangeCodeForToken")
    /\ settled[1].result = TokenExchangeFailed
    /\ settled[1].response = <<>>
    /\ Handshake # <<>>
    /\ Handshake = settled[1].tempData

(***************************************************************************)
(* C10.  No call sends more than one POST: a call that waits for the token *)
(* endpoint has sent exactly one, and a call that failed on its POST has   *)
(* sent exactly one and is settled.                                        *)
(***************************************************************************)
C10_NoRetry ==
    /\ \A call \in Waiting : call.posts = 1
    /\ settled # <<>>
       => /\ settled[1].posts <= 1
          /\ settled[1].result \in {TokenExchangeFailed, TokenRefreshFailed}
             => settled[1].posts = 1

\* a refresh has failed on its single POST while an exchange waits for its own
C10_Witness ==
    /\ Settled("getValidAccessToken")
    /\ settled[1].result = TokenRefreshFailed
    /\ settled[1].posts = 1
    /\ \E call \in Waiting : call.op = "exchangeCodeForToken" /\ call.posts = 1
(***************************************************************************)
(* C11.  The handshake file holds at most one HandshakeRecord, each        *)
(* generateAuthUrl() leaves the record of its own state there, and an      *)
(* exchangeCodeForToken is accepted (not failed with InvalidState) only    *)
(* with the state of the most recent generateAuthUrl(): after two          *)
(* generateAuthUrl() calls the first call's state is rejected.             *)
(***************************************************************************)
C11_NewestHandshakeOnly ==
    [][/\ Len(Handshake') <= 1
       /\ BeginsAndSettles("generateAuthUrl")
          => /\ Handshake' # <<>>
             /\ Handshake'[1].state = settled'[1].state
             /\ settled'[1].state = generated'
       /\ Begins("exchangeCodeForToken")
          => IF Begun("exchangeCodeForToken").state = generated /\ Handshake # <<>>
             THEN BeginsAndWaits("exchangeCodeForToken")
             ELSE FailedUnsent("exchangeCodeForToken", InvalidState)'
      ]_vars

(***************************************************************************)
(* C12.  Whenever generateAuthUrl() returns a URL, the stored              *)
(* HandshakeRecord holds the state of that URL and a code verifier whose   *)
(* challenge is the code_challenge of that URL.                            *)
(***************************************************************************)
C12_UrlMatchesStoredHandshake ==
    (Settled("generateAuthUrl") /\ settled[1].result = "ok")
    => /\ settled[1].url # <<>>
       /\ Handshake # <<>>
       /\ Handshake[1].state = settled[1].url[1].state
       /\ CodeChallenge(Handshake[1].codeVerifier) = settled[1].url[1].code_challenge

(***************************************************************************)
(* C13.  An isAuthenticated() call that reads the token file without a     *)
(* storage error returns true exactly when a CredentialRecord is stored,   *)
(* whatever its expires_at and whether or not it has a refresh_token, and  *)
(* changes nothing.                                                        *)
(***************************************************************************)
C13_AuthenticatedIffStored ==
    [][(Begins("isAuthenticated") /\ ~Begun("isAuthenticated").storageError)
        => /\ BeginsAndSettles("isAuthenticated")
           /\ settled'[1].result = "ok"
           /\ settled'[1].flag = (Credential # <<>>)
           /\ settled'[1].posts = 0
           /\ UNCHANGED <<tokenFile, tempFile, inflight, issued>>
      ]_vars

\* isAuthenticated() has returned true on a record that is past its
\* expires_at and has no refresh_token: getValidAccessToken() rejects it
C13_Witness ==
    /\ Settled("isAuthenticated")
    /\ settled[1].flag
    /\ ~settled[1].storageError
    /\ Credential # <<>>
    /\ ~HasRefreshToken(Credential[1])
    /\ now > Credential[1].expires_at
    /\ AccessDecision(Credential, now) = ReauthorizationRequired

(***************************************************************************)
(* C14.  When clearAuth() returns, no CredentialRecord is stored, whatever *)
(* was stored before; and while none is stored, isAuthenticated() returns  *)
(* false and getValidAccessToken() fails with NotAuthenticated.            *)
(***************************************************************************)
C14_ClearedMeansNotAuthenticated ==
    [][/\ BeginsAndSettles("clearAuth") => Credential' = <<>>
       /\ (Begins("isAuthenticated") /\ Credential = <<>>)
          => /\ BeginsAndSettles("isAuthenticated")
             /\ settled'[1].flag = FALSE
       /\ (Begins("getValidAccessToken") /\ Credential = <<>>)
          => FailedUnsent("getValidAccessToken", NotAuthenticated)'
      ]_vars

(***************************************************************************)
(* C15.  clearAuth() returns normally whether or not a CredentialRecord is *)
(* stored, sends nothing and never changes the handshake file.  It is      *)
(* idempotent: when no CredentialRecord is stored it changes nothing, and  *)
(* what two calls in a row can leave stored is what one call can leave.    *)
(***************************************************************************)
C15_ClearAuthIdempotent ==
    [][BeginsAndSettles("clearAuth")
        => /\ settled'[1].result = "ok"
           /\ settled'[1].posts = 0
           /\ UNCHANGED <<tempFile, inflight, issued, generated>>
           /\ Credential = <<>> => tokenFile' = tokenFile
           /\ UNION { { ClearTokensFile(ClearTokensFile(tokenFile, first), second)
                          : second \in WriteOutcomes } : first \in WriteOutcomes }
                = { ClearTokensFile(tokenFile, once) : once \in WriteOutcomes }
      ]_vars

\* clearAuth() has returned with no token file at all, and the handshake of
\* an authorization attempt begun before it is still stored
C15_Witness ==
    /\ Settled("clearAuth")
    /\ settled[1].result = "ok"
    /\ tokenFile = NoFile
    /\ Handshake # <<>>
    /\ Handshake[1].state = generated

(***************************************************************************)
(* C16.  A call that hit a storage error (a read or a write of the token   *)
(* file or of the handshake file threw) fails with StorageFailure: it      *)
(* neither returns normally nor fails with an error of another kind.       *)
(***************************************************************************)
C16_StorageFailureSurfaced ==
    (settled # <<>> /\ settled[1].storageError)
    => settled[1].result = StorageFailure

(***************************************************************************)
(* C17.  An API request goes out only from the interceptor, in the step    *)
(* that takes a getValidAccessToken() call that returned a token, and it   *)
(* carries that token as its bearer token; when the call failed, the       *)
(* interceptor rejects with "Authentication required: ..." and no request  *)
(* goes out.                                                               *)
(***************************************************************************)
C17_RequestCarriesValidatedToken ==
    [][/\ (settled' # <<>> /\ settled'[1].request # <<>>)
          => /\ Settled("getValidAccessToken")
             /\ settled[1].result = "ok"
             /\ settled'[1].request[1].Authorization = Bearer(settled[1].value)
       /\ (Settled("getValidAccessToken") /\ settled[1].result # "ok")
          => /\ Settled("apiRequest")'
             /\ settled'[1].request = <<>>
             /\ settled'[1].result = AuthenticationRequired(settled[1].result)
       /\ \A call \in BagToSet(inflight') : call.request = <<>>
      ]_vars

\* a request has gone out with the token that its own refresh obtained
C17_Witness ==
    /\ Settled("apiRequest")
    /\ settled[1].result = "ok"
    /\ settled[1].posts = 1
    /\ settled[1].request = <<[Authorization |-> Bearer(settled[1].response[1].access_token)]>>

(***************************************************************************)
(* Steps of a callback server, as the claims speak of them.                *)
(***************************************************************************)
\* listener l takes a request in this step: a response of l or a call made
\* by l appears
Handles(l) ==
    /\ settled = <<>>
    /\ Listening(l)
    /\ \/ settled' # <<>> /\ settled'[1].caller = l /\ inflight' = inflight
       \/ /\ settled' = <<>>
          /\ \E call \in BagToSet(inflight') :
               call.caller = l /\ inflight' = inflight (+) SetToBag({call})

\* the response or the call that appears in this step
Handled ==
    IF settled' # <<>> THEN settled'[1]
    ELSE CHOOSE call \in BagToSet(inflight') :
            inflight' = inflight (+) SetToBag({call})

C19_ErrorCallbackClosesWithoutExchange ==
    [][\A l \in 1 .. MaxHandshakes :
        (Handles(l) /\ Truthy(Handled.query.error))
        => /\ Settled("callback")'
           /\ settled'[1].status = 400
           /\ settled'[1].posts = 0
           /\ ~Listening(l)'
           /\ UNCHANGED <<tokenFile, tempFile, inflight, issued>>
      ]_vars

\* a request with error, code and the state of the stored handshake has been
\* answered 400, and the handshake is still stored
C19_Witness ==
    /\ Settled("callback")
    /\ settled[1].status = 400
    /\ Truthy(settled[1].query.error)
    /\ Truthy(settled[1].query.code)
    /\ Handshake # <<>>
    /\ settled[1].query.state = <<Handshake[1].state>>
    /\ listeners[settled[1].caller].status = "Closed"

(***************************************************************************)
(* C20.  No listener stays Listening forever: a listener that is Listening *)
(* is eventually not Listening (closed by a request, closed by its         *)
(* 5-minute timer, or gone with the process).  Listening(l) leads to       *)
(* ~Listening(l) exactly when ~Listening(l) holds again and again.         *)
(***************************************************************************)
C20_ListenerEventuallyCloses ==
    \A l \in 1 .. MaxHandshakes : []<>(~Listening(l))

\* a listener that took no request has been closed by its timer, 5 minutes
\* after its start
C20_Witness ==
    /\ Len(listeners) = 1
    /\ listeners[1].status = "Closed"
    /\ listeners[1].closedBy = "timeout"
    /\ now = listeners[1].due
    /\ issued = 0
    /\ ~exited

(***************************************************************************)
(* C21.  search_spotify and get_item_details need no user authentication:  *)
(* a call of one of them that found no CredentialRecord stored (and asked  *)
(* for an item type there is) is answered only after its request went to   *)
(* the API and was answered, and with the results when the API answered    *)
(* 200.                                                                    *)
(***************************************************************************)
PublicTools == {"search_spotify", "get_item_details"}

C21_PublicToolsNeedNoAuthentication ==
    \A tool \in PublicTools :
        (/\ Settled("callTool")
         /\ settled[1].tool = tool
         /\ settled[1].result # UnknownItemType
         /\ Credential = <<>>)
        => /\ settled[1].status # 0
           /\ settled[1].status = 200 => settled[1].text = <<Content(tool)>>


(***************************************************************************)
(* C22.  When getValidAccessToken() fails with NotAuthenticated,           *)
(* ReauthorizationRequired or TokenRefreshFailed in a request of an API    *)
(* method, the error that the method throws, which is the one that reaches *)
(* the request handler, says that authentication is required and carries   *)
(* the failure's message.                                                  *)
(***************************************************************************)
AuthenticationFailures ==
    {NotAuthenticated, ReauthorizationRequired, TokenRefreshFailed}

\* of the errors the program throws, the ones that say so
SaysAuthenticationRequired(error, message) ==
    error \in {AuthenticationRequired(message),
               "User authentication required: " \o message}

C22_AuthenticationFailureReachesDispatch ==
    [][\A message \in AuthenticationFailures :
        (/\ Settled("apiRequest")
         /\ settled[1].tool \in ApiTools
         /\ settled[1].result = AuthenticationRequired(message)
         /\ Settled("handler")')
        => SaysAuthenticationRequired(settled'[1].result, message)
      ]_vars


(***************************************************************************)
(* C23.  Every call-tool request is answered with a text.  When the        *)
(* handler or the SpotifyClient method it called threw, the text is        *)
(* 'Error: ' followed by the error's message, and when it returned, the    *)
(* text it returned.  A name that is no tool is answered at once with      *)
(* 'Error: Unknown tool: <name>': nothing is read, written or sent for it. *)
(***************************************************************************)
C23_ErrorsReturnedAsText ==
    [][/\ (Settled("handler") /\ settled[1].result # "ok")
          => /\ Settled("callTool")'
             /\ settled'[1].text = <<ErrorText(settled[1].result)>>
       /\ (~Settled("callTool") /\ Settled("callTool")')
          => /\ settled'[1].text # <<>>
             /\ settled'[1].result # "ok"
                => settled'[1].text = <<ErrorText(settled'[1].result)>>
             /\ settled'[1].tool \notin Tools
                => /\ settled'[1].result = "Unknown tool: " \o settled'[1].tool
                   /\ settled = <<>>
                   /\ settled'[1].tokenData = <<>>
                   /\ settled'[1].request = <<>>
                   /\ settled'[1].posts = 0
                   /\ UNCHANGED <<tokenFile, tempFile, inflight, issued>>
      ]_vars

\* get_current_track has been answered with the error that getCurrentTrack
\* made of the API's 401
C23_Witness ==
    /\ Settled("callTool")
    /\ settled[1].tool = "get_current_track"
    /\ settled[1].status = 401
    /\ settled[1].text =
         <<"Error: Failed to get current track (401): The access token expired">>


(***************************************************************************)
(* C24.  A listener of a running process leaves Listening only when its    *)
(* timer fires or when it answers a request that carried an error or both  *)
(* code and state; a request that carried neither leaves it Listening.     *)
(***************************************************************************)
C24_OnlyThreeEventsClose ==
    [][\A l \in 1 .. MaxHandshakes :
        /\ (Listening(l) /\ ~Listening(l)' /\ ~exited')
           => \/ /\ listeners'[l].closedBy = "timeout"
                 /\ now >= listeners[l].due
              \/ /\ Settled("callback")'
                 /\ settled'[1].caller = l
                 /\ \/ Truthy(settled'[1].query.error)
                    \/ /\ Truthy(settled'[1].query.code)
                       /\ Truthy(settled'[1].query.state)
        /\ (/\ Handles(l)
            /\ ~Truthy(Handled.query.error)
            /\ ~(Truthy(Handled.query.code) /\ Truthy(Handled.query.state)))
           => Listening(l)'
      ]_vars


(***************************************************************************)
(* C25.  When the refresh POST of a getValidAccessToken() call is rejected *)
(* or its transport fails, the call fails with TokenRefreshFailed and      *)
(* changes neither file; if the stored CredentialRecord is still the one   *)
(* the call loaded, it is stored afterwards with its refresh_token, so     *)
(* isAuthenticated() is true and the next call refreshes again.            *)
(***************************************************************************)
C25_FailedRefreshKeepsCredential ==
    [][(Resumes("getValidAccessToken") /\ settled'[1].response = <<>>)
        => /\ settled'[1].result = TokenRefreshFailed
           /\ UNCHANGED <<tokenFile, tempFile, issued>>
           /\ Credential = settled'[1].tokenData
              => /\ Authenticated(Credential')
                 /\ HasRefreshToken(Credential'[1])
                 /\ AccessDecision(Credential', now') = "refresh"
      ]_vars

\* a call has failed with TokenRefreshFailed and the credential it loaded is
\* still stored
C25_Witness ==
    /\ Settled("getValidAccessToken")
    /\ settled[1].result = TokenRefreshFailed
    /\ settled[1].response = <<>>
    /\ settled[1].posts = 1
    /\ Credential # <<>>
    /\ Credential = settled[1].tokenData


(***************************************************************************)
(* C26.  When no CredentialRecord is stored (storage does not fail: none   *)
(* was ever stored, or clearAuth() has removed it), the next one is stored *)
(* by an exchangeCodeForToken call that succeeds: a refresh that was in    *)
(* flight when clearAuth() ran stores nothing when it completes.           *)
(***************************************************************************)
C26_NoCredentialAfterClearAuth ==
    [][(Credential = <<>> /\ Credential' # <<>>)
        => /\ Resumes("exchangeCodeForToken")
           /\ settled'[1].result = "ok"
      ]_vars


(***************************************************************************)
(* C27.  A refresh that completes stores its tokens over the credential    *)
(* it started on, or over one refreshed from that credential: once an      *)
(* exchange has succeeded, a refresh that had started on the credential    *)
(* stored before it does not replace the tokens of the exchange.           *)
(***************************************************************************)
\* lines 140-145: a credential obtained from tokenData by refreshes has a
\* later access token and a refresh token, the response's or the one carried
\* over
RefreshedFrom(tokenData, credential) ==
    /\ credential # <<>>
    /\ HasRefreshToken(credential[1])
    /\ credential[1].access_token > tokenData[1].access_token

C27_RefreshNeverOverwritesExchange ==
    [][(/\ Resumes("getValidAccessToken")
        /\ tokenFile' # tokenFile
        /\ Credential # <<>>)
        => \/ Credential = settled'[1].tokenData
           \/ RefreshedFrom(settled'[1].tokenData, Credential)
      ]_vars


(***************************************************************************)
(* C28.  A stored HandshakeRecord is deleted only by the success of an     *)
(* exchange that has checked its state against that very record: the       *)
(* handshake that generateAuthUrl() stores while an exchange for the       *)
(* previous one awaits its POST is still stored when that exchange         *)
(* completes.                                                              *)
(***************************************************************************)
C28_HandshakeDeletedByItsOwnExchange ==
    [][(Handshake # <<>> /\ Handshake' = <<>>)
        => /\ Resumes("exchangeCodeForToken")
           /\ settled'[1].result = "ok"
           /\ settled'[1].tempData = Handshake
      ]_vars


(***************************************************************************)
(* C29.  One stored HandshakeRecord serves one token-exchange POST: an     *)
(* exchangeCodeForToken that begins with the state of a record for which   *)
(* an earlier exchange still awaits the token endpoint fails with          *)
(* InvalidState and sends no request.                                      *)
(***************************************************************************)
C29_OneExchangePerHandshake ==
    [][\A first \in Waiting :
         (/\ first.op = "exchangeCodeForToken"
          /\ first.tempData = Handshake
          /\ Begins("exchangeCodeForToken")
          /\ Begun("exchangeCodeForToken").state = first.state)
         => FailedUnsent("exchangeCodeForToken", InvalidState)'
      ]_vars


(***************************************************************************)
(* C30.  Every spotify_authorize leaves the callback server it has started *)
(* Listening, with the handshake of the state it has generated stored, and *)
(* the process running: also when the listener of an earlier               *)
(* spotify_authorize has not closed yet.                                   *)
(***************************************************************************)
C30_AuthorizeLeavesListener ==
    [][Len(listeners') > Len(listeners)
        => /\ Listening(Len(listeners))'
           /\ ~exited'
           /\ Handshake' # <<>>
           /\ Handshake'[1].state = generated'
      ]_vars


=============================================================================
